---------------------------- MODULE Spec2Model ----------------------------
(***************************************************************************)
(* FDGH Converter 4.0: the XBIN container codec, the FDGH binary layout    *)
(* codec, the string table, the FNV-1a hash and the collation order of     *)
(* src/fdgh_converter.py, with the conversions of its main().              *)
(*                                                                         *)
(* Bytes objects are sequences of integers 0..255, Python strings are      *)
(* sequences of Latin-1 code points.  A Python exception is a result       *)
(* record with ok = FALSE.  Integers are TLC's (below 2^31): every u32     *)
(* the model packs or unpacks has its most significant byte below 128.     *)
(***************************************************************************)
EXTENDS Integers, Sequences, FiniteSets, TLC

VARIABLES
    pc,           \* position of the run being modelled
    xml_file,     \* main: the XML input file, as the parsed element tree
    enc,          \* main: what xml_to_fdgh returned (or raised)
    xbin_data,    \* the buffer save_xbin returned
    dat_file,     \* the XBIN file on disk (written by main, or given to load_xbin)
    loaded,       \* what load_xbin returned (or raised)
    xml_data,     \* main: what fdgh_to_xml returned (or raised)
    xml_out,      \* main: the XML output file
    xbin_args,    \* container run: the arguments (end, data, metadata, version) of save_xbin
    asset_names,  \* asset run: every room's asset names, in document order
    assets_list,  \* asset run: the asset table of xml_to_fdgh step 3
    hash_data,    \* hash run: the bytes the loop of fnv1a_64 has taken
    hash_value,   \* hash run: the local hash of fnv1a_64, least significant byte first
    cli_input,    \* xbin_cli: the XBIN file given to the unpack command
    cli_printed,  \* xbin_cli: the configuration string unpack printed
    cli_unpacked, \* xbin_cli: the output file of unpack
    cli_config,   \* xbin_cli: the config argument of the pack command
    cli_packed,   \* xbin_cli: what handle_pack wrote (or raised)
    str_args,     \* string run: the arguments (end, string, num_null_terminators)
    str_encoded,  \* string run: what pack_4b_length_prefixed_padded_string returned
    str_loaded    \* string run: what load_4b_length_prefixed_string returned

vars == <<pc, xml_file, enc, xbin_data, dat_file, loaded, xml_data, xml_out,
          xbin_args, asset_names, assets_list, hash_data, hash_value,
          cli_input, cli_printed, cli_unpacked, cli_config, cli_packed,
          str_args, str_encoded, str_loaded>>

\* The variables of the runs of one function, and their value in the other
\* runs.
hashVars == <<hash_data, hash_value>>
cliVars == <<cli_input, cli_printed, cli_unpacked, cli_config, cli_packed>>
strVars == <<str_args, str_encoded, str_loaded>>
toolVars == <<hashVars, cliVars, strVars>>

\* A file that does not exist, a local that is not assigned yet.
None == [ok |-> FALSE, error |-> "None"]

HashIdle == hash_data = None /\ hash_value = None
CliIdle ==
    /\ cli_input = None /\ cli_printed = None /\ cli_unpacked = None
    /\ cli_config = None /\ cli_packed = None
StrIdle == str_args = None /\ str_encoded = None /\ str_loaded = None
ToolsIdle == HashIdle /\ CliIdle /\ StrIdle

Raise(msg) == [ok |-> FALSE, error |-> msg]

Min(a, b) == IF a < b THEN a ELSE b
Max(a, b) == IF a > b THEN a ELSE b

RECURSIVE Zeros(_)
Zeros(n) == IF n <= 0 THEN <<>> ELSE <<0>> \o Zeros(n - 1)

Reverse(s) == [i \in 1..Len(s) |-> s[Len(s) + 1 - i]]

---------------------------------------------------------------------------
(* Python slicing and the struct module.                                   *)

\* A slice index, as Python clamps it: negative indices count from the end.
SliceIndex(i, n) == IF i < 0 THEN Max(i + n, 0) ELSE Min(i, n)

\* s[a:b]
PySlice(s, a, b) ==
    LET lo == SliceIndex(a, Len(s))
        hi == SliceIndex(b, Len(s))
    IN  IF lo >= hi THEN <<>> ELSE SubSeq(s, lo + 1, hi)

\* s[a:]
PyFrom(s, a) == PySlice(s, a, Len(s))

\* struct.pack(end + 'I', n)
pack_u32(end, n) ==
    LET be == << (n \div 16777216) % 256, (n \div 65536) % 256,
                 (n \div 256) % 256, n % 256 >>
    IN  IF end = ">" THEN be ELSE Reverse(be)

\* The value of four bytes in byte order end.
U32Value(end, b) ==
    LET be == IF end = ">" THEN b ELSE Reverse(b)
    IN  be[1] * 16777216 + be[2] * 65536 + be[3] * 256 + be[4]

\* struct.unpack(end + 'I', b)[0]; -1 is struct.error (b is not 4 bytes long).
unpack_u32(end, b) == IF Len(b) # 4 THEN -1 ELSE U32Value(end, b)

\* Where struct.unpack_from reads size bytes for a given offset; -1 is
\* struct.error.  A negative offset counts from the end of the buffer.
UnpackStart(data, offset, size) ==
    IF offset < 0
    THEN IF offset + size > 0 \/ offset + Len(data) < 0
         THEN -1
         ELSE offset + Len(data)
    ELSE IF Len(data) - offset < size THEN -1 ELSE offset

\* struct.unpack_from(end + 'I', data, offset)[0]; -1 is struct.error.
unpack_u32_from(end, data, offset) ==
    LET at == UnpackStart(data, offset, 4)
    IN  IF at < 0 THEN -1 ELSE U32Value(end, SubSeq(data, at + 1, at + 4))

---------------------------------------------------------------------------
(* The XBIN container.                                                     *)

XBIN_MAGIC == <<88, 66, 73, 78>>
XBIN_MAGIC_BE == XBIN_MAGIC \o <<18, 52>>
XBIN_MAGIC_LE == XBIN_MAGIC \o <<52, 18>>

COLR == <<67, 79, 76, 82>>
RLOC == <<82, 76, 79, 67>>

\* (n + 3) & ~3
AlignNext4(n) == ((n \div 4) + 1) * 4
Align4(n) == ((n + 3) \div 4) * 4

\* The header length, had versions 4 and 5 the 16-byte header of version 2.
HeaderLenShort(version) ==
    IF version \in {2, 4, 5} THEN 16 ELSE 0

\* The header length of a container version; 0 is "Unknown XBIN version".
HeaderLen(version) ==
    IF version = 2 THEN 16 ELSE IF version \in {4, 5} THEN 20 ELSE 0

\* The 12-byte trailer marker of a version 4/5 container.
expected_colr(end) == (IF end = ">" THEN COLR ELSE RLOC) \o Zeros(8)

\* load_xbin with its assert statement compiled away.
ColrUnchecked(end, data, colr_offset) == TRUE

\* assert data[colr_offset:] == expected_colr
ColrPresent(end, data, colr_offset) ==
    PyFrom(data, colr_offset) = expected_colr(end)

\* load_xbin(data)
load_xbin(data) ==
    IF Len(data) < 16 THEN Raise("ValueError: File is too short for XBIN")
    ELSE LET magic == SubSeq(data, 1, 6)
             end == IF magic = XBIN_MAGIC_BE THEN ">"
                    ELSE IF magic = XBIN_MAGIC_LE THEN "<" ELSE "none"
             version == data[7]
         IN
         IF end = "none" THEN Raise("ValueError: Incorrect XBIN magic")
         ELSE IF data[8] # 0 THEN Raise("ValueError: XBIN[7] != 0")
         ELSE IF version = 2 THEN
             LET filesize == unpack_u32_from(end, data, 8)
                 metadata == unpack_u32_from(end, data, 12)
             IN  [ok |-> TRUE, end |-> end, data |-> PySlice(data, 16, filesize),
                  metadata |-> metadata, version |-> version]
         ELSE IF version \in {4, 5} THEN
             IF UnpackStart(data, 8, 12) < 0 THEN Raise("struct.error")
             ELSE
             LET filesize == unpack_u32_from(end, data, 8)
                 metadata == unpack_u32_from(end, data, 12)
                 colr_offset == unpack_u32_from(end, data, 16)
             IN
             IF Align4(filesize) # colr_offset
             THEN Raise("ValueError: XBIN: filesize != COLR offset")
             ELSE IF ~ColrPresent(end, data, colr_offset)
             THEN Raise("AssertionError")
             ELSE [ok |-> TRUE, end |-> end, data |-> PySlice(data, 20, filesize),
                   metadata |-> metadata, version |-> version]
         ELSE Raise("ValueError: Unknown XBIN version")

\* save_xbin writing the aligned length as the total size.
FilesizeFieldPadded(header_len, data) == Align4(header_len + Len(data))

\* The total-size field save_xbin writes: header_len + len(data).
FilesizeField(header_len, data) == header_len + Len(data)

\* save_xbin writing the trailer offset relative to the payload.
ColrOffsetRelative(xbin) == Len(xbin) - 20

\* The trailer-offset field save_xbin writes: len(xbin), once xbin is aligned.
ColrOffsetField(xbin) == Len(xbin)

\* The bytes save_xbin has in xbin when it reaches the trailer: the header, the
\* data and the zero bytes that align them to 4.
XbinBody(end, data, metadata, version) ==
    LET header_len == HeaderLen(version)
        head == (IF end = ">" THEN XBIN_MAGIC_BE ELSE XBIN_MAGIC_LE)
                \o <<version, 0>>
                \o pack_u32(end, FilesizeField(header_len, data))
                \o pack_u32(end, metadata)
                \o (IF version \in {4, 5} THEN Zeros(4) ELSE <<>>)
                \o data
    IN  head \o Zeros(Align4(Len(head)) - Len(head))

\* struct.pack_into(end + 'I', xbin, 0x10, len(xbin)), and the trailer.
XbinTrailer(end, xbin) ==
    SubSeq(xbin, 1, 16) \o pack_u32(end, ColrOffsetField(xbin)) \o PyFrom(xbin, 20)
    \o (IF end = ">" THEN COLR ELSE RLOC) \o Zeros(8)

\* save_xbin(end, data, metadata, version)
save_xbin(end, data, metadata, version) ==
    IF HeaderLen(version) = 0 THEN Raise("ValueError: Unknown XBIN version")
    ELSE LET xbin == XbinBody(end, data, metadata, version)
         IN  [ok |-> TRUE,
              data |-> IF version \in {4, 5} THEN XbinTrailer(end, xbin) ELSE xbin]

---------------------------------------------------------------------------
(* Strings and the hash.                                                   *)

\* str.encode('latin-1') and bytes.decode('latin-1'): code point c is byte c.
\* The strings of the model are Latin-1, so encode never raises.
encode_latin1(string) == string
decode_latin1(bytes) == bytes

\* load_4b_length_prefixed_string(end, data): [ok, val], or struct.error when
\* data holds fewer than 4 bytes.
load_4b_length_prefixed_string(end, data) ==
    LET strLen == unpack_u32(end, PySlice(data, 0, 4))
    IN  IF strLen < 0 THEN Raise("struct.error")
        ELSE [ok |-> TRUE, val |-> decode_latin1(PySlice(data, 4, 4 + strLen))]

\* pack_4b_length_prefixed_padded_string(end, string, num_null_terminators)
pack_4b_length_prefixed_padded_string(end, string, num_null_terminators) ==
    LET encoded == pack_u32(end, Len(string)) \o encode_latin1(string)
                   \o Zeros(num_null_terminators)
    IN  encoded \o Zeros(Align4(Len(encoded)) - Len(encoded))

\* a + b on two bytes, where the hash takes a ^ b.
ByteSum(a, b) == (a + b) % 256

\* a ^ b on two bytes.
RECURSIVE Xor(_, _)
Xor(a, b) ==
    IF a = 0 THEN b
    ELSE IF b = 0 THEN a
    ELSE ((a + b) % 2) + 2 * Xor(a \div 2, b \div 2)

\* 0xcbf29ce484222325 and 0x100000001b3 = 2^40 + 0x1b3.  A 64-bit hash is the
\* sequence of its 8 bytes, least significant first.
FNV_OFFSET_BASIS == <<37, 35, 34, 132, 228, 156, 242, 203>>
FNV_PRIME_LOW == 435
FNV_PRIME_SHIFT == 5

\* (h * 0x100000001b3) & 0xffffffffffffffff, byte by byte with carry.
RECURSIVE MulPrime(_, _, _)
MulPrime(h, i, carry) ==
    IF i > 8 THEN <<>>
    ELSE LET r == h[i] * FNV_PRIME_LOW + carry
                  + (IF i > FNV_PRIME_SHIFT THEN h[i - FNV_PRIME_SHIFT] ELSE 0)
         IN  <<r % 256>> \o MulPrime(h, i + 1, r \div 256)

\* fnv1a_64(data), least significant byte first.
RECURSIVE Fnv(_, _)
Fnv(hash, data) ==
    IF data = <<>> THEN hash
    ELSE Fnv(MulPrime([hash EXCEPT ![1] = Xor(hash[1], data[1])], 1, 0), Tail(data))

fnv1a_64(data) == Fnv(FNV_OFFSET_BASIS, data)

\* struct.pack(end + 'Q', hash)
pack_u64(end, hash) == IF end = ">" THEN Reverse(hash) ELSE hash

---------------------------------------------------------------------------
(* The collation order and the asset table.                                *)

\* string.punctuation: the table without the swap of '.' and '-'.
StringPunctuation ==
    << 33, 34, 35, 36, 37, 38, 39, 40, 41, 42, 43, 44, 45, 46, 47,
       58, 59, 60, 61, 62, 63, 64, 91, 92, 93, 94, 95, 96, 123, 124, 125, 126 >>

\* '!"#$%&\'()*+,.-/:;<=>?@[\]^_`{|}~' as code points.
STRING_SORTING_PUNCTUATION_TABLE ==
    << 33, 34, 35, 36, 37, 38, 39, 40, 41, 42, 43, 44, 46, 45, 47,
       58, 59, 60, 61, 62, 63, 64, 91, 92, 93, 94, 95, 96, 123, 124, 125, 126 >>

\* The source subtracts 999999999999999, which TLC's integers cannot hold; any
\* offset above 31 puts the table's 32 keys below every code point alike.
PUNCTUATION_KEY_OFFSET == 999999999

\* str.lower() on one Latin-1 character.
Lower(c) ==
    IF c \in 65..90 \/ (c \in 192..222 /\ c # 215) THEN c + 32 ELSE c

\* STRING_SORTING_PUNCTUATION_TABLE.index(c)
TableIndex(c) ==
    (CHOOSE i \in 1..Len(STRING_SORTING_PUNCTUATION_TABLE) :
        STRING_SORTING_PUNCTUATION_TABLE[i] = c) - 1

InTable(c) ==
    \E i \in 1..Len(STRING_SORTING_PUNCTUATION_TABLE) :
        STRING_SORTING_PUNCTUATION_TABLE[i] = c

\* fdgh_string_sorting_key(s)
fdgh_string_sorting_key(s) ==
    [i \in 1..Len(s) |->
        LET c == Lower(s[i])
        IN  IF InTable(c) THEN TableIndex(c) - PUNCTUATION_KEY_OFFSET ELSE c]

\* a < b for two Python lists of integers.
RECURSIVE ListLess(_, _)
ListLess(a, b) ==
    IF b = <<>> THEN FALSE
    ELSE IF a = <<>> THEN TRUE
    ELSE IF a[1] # b[1] THEN a[1] < b[1]
    ELSE ListLess(Tail(a), Tail(b))

\* Where list.sort puts x among the sorted items before it: before the first
\* item whose key is greater, so that items of equal key keep their order.
RECURSIVE InsertByKey(_, _)
InsertByKey(sorted, x) ==
    IF sorted = <<>> THEN <<x>>
    ELSE IF ListLess(fdgh_string_sorting_key(x), fdgh_string_sorting_key(sorted[1]))
         THEN <<x>> \o sorted
         ELSE <<sorted[1]>> \o InsertByKey(Tail(sorted), x)

\* list.sort(key=fdgh_string_sorting_key): a stable sort.
RECURSIVE SortByKey(_)
SortByKey(l) ==
    IF l = <<>> THEN <<>>
    ELSE InsertByKey(SortByKey(SubSeq(l, 1, Len(l) - 1)), l[Len(l)])

Contains(l, x) == \E i \in 1..Len(l) : l[i] = x

\* The loop of step 3: every asset name once, in the order first seen.
RECURSIVE FirstSeen(_)
FirstSeen(names) ==
    IF names = <<>> THEN <<>>
    ELSE LET before == FirstSeen(SubSeq(names, 1, Len(names) - 1))
             asset == names[Len(names)]
         IN  IF Contains(before, asset) THEN before ELSE Append(before, asset)

\* Step 3 of xml_to_fdgh: assets_list, from the asset names of all rooms.
AssetsListOf(names) == SortByKey(FirstSeen(names))

\* list.index(x), 0-based; x is in l.
IndexOf(l, x) == (CHOOSE i \in 1..Len(l) : l[i] = x /\ \A j \in 1..(i - 1) : l[j] # x) - 1

---------------------------------------------------------------------------
(* The XML document.  An XML file is the element tree ElementTree parses   *)
(* it to: the root's attributes as written (numbers as decimal numerals),  *)
(* the worldmap element's value and room texts, and the rooms with their   *)
(* name attribute and link and asset texts.  The generated comment, which  *)
(* carries the time, is no part of the tree xml_to_fdgh looks at.          *)

\* The characters str.strip() removes, within Latin-1.
Whitespace == (9..13) \cup (28..32) \cup {133, 160}

\* str.strip()
RECURSIVE LStrip(_)
LStrip(t) == IF t # <<>> /\ t[1] \in Whitespace THEN LStrip(Tail(t)) ELSE t
Strip(t) == Reverse(LStrip(Reverse(LStrip(t))))

\* int(s) for a decimal numeral of digits; -1 is ValueError.
RECURSIVE ParseInt(_)
ParseInt(t) ==
    IF t = <<>> \/ \E i \in 1..Len(t) : t[i] \notin 48..57 THEN -1
    ELSE IF Len(t) = 1 THEN t[1] - 48
    ELSE ParseInt(SubSeq(t, 1, Len(t) - 1)) * 10 + (t[Len(t)] - 48)

\* str(n) for n >= 0.
RECURSIVE FormatInt(_)
FormatInt(n) ==
    IF n < 10 THEN <<48 + n>> ELSE Append(FormatInt(n \div 10), 48 + (n % 10))

---------------------------------------------------------------------------
(* xml_to_fdgh.                                                            *)

FDGH_MAGIC_BE == <<70, 68, 71, 72>>
FDGH_MAGIC_LE == <<72, 71, 68, 70>>

\* A lookup without the else branches: a name no room has gets index 0.
RoomIndexOrZero(room_list, name) ==
    IF \E i \in 1..Len(room_list) : room_list[i].name = name
    THEN (CHOOSE i \in 1..Len(room_list) :
             /\ room_list[i].name = name
             /\ \A j \in 1..(i - 1) : room_list[j].name # name) - 1
    ELSE 0

\* The index of the first room called name, as the for/else loops of steps 2
\* and 5 find it; -1 when they reach their else branch.
RoomIndex(room_list, name) ==
    IF \E i \in 1..Len(room_list) : room_list[i].name = name
    THEN (CHOOSE i \in 1..Len(room_list) :
             /\ room_list[i].name = name
             /\ \A j \in 1..(i - 1) : room_list[j].name # name) - 1
    ELSE -1

\* pack_u32 of every item of a list of integers.
RECURSIVE PackAll(_, _)
PackAll(end, ints) ==
    IF ints = <<>> THEN <<>> ELSE pack_u32(end, ints[1]) \o PackAll(end, Tail(ints))

\* The parse loop of xml_to_fdgh: the texts are stripped, the name attribute
\* is taken as written.
ParseRooms(rooms) ==
    [i \in 1..Len(rooms) |->
        [name |-> rooms[i].name,
         links |-> [j \in 1..Len(rooms[i].links) |-> Strip(rooms[i].links[j])],
         assets |-> [j \in 1..Len(rooms[i].assets) |-> Strip(rooms[i].assets[j])]]]

\* Every room's asset names, in document order.
RECURSIVE AllAssetNames(_)
AllAssetNames(room_list) ==
    IF room_list = <<>> THEN <<>>
    ELSE room_list[1].assets \o AllAssetNames(Tail(room_list))

\* Step 5 for the rooms from the i-th on: [ok, room_offset_data, room_data],
\* or the ValueError of an unknown link.
RECURSIVE RoomsLoop(_, _, _, _, _, _, _, _)
RoomsLoop(end, room_list, table, nterm, offset_to_room_data, i, room_offset_data, room_data) ==
    IF i > Len(room_list)
    THEN [ok |-> TRUE, room_offset_data |-> room_offset_data, room_data |-> room_data]
    ELSE LET room == room_list[i]
             name_data == pack_4b_length_prefixed_padded_string(end, room.name, nterm)
             link_idx == [j \in 1..Len(room.links) |-> RoomIndex(room_list, room.links[j])]
             link_data == pack_u32(end, Len(room.links)) \o PackAll(end, link_idx)
             asset_idx == [j \in 1..Len(room.assets) |-> IndexOf(table, room.assets[j])]
             asset_data == pack_u32(end, Len(room.assets)) \o PackAll(end, asset_idx)
             offs == pack_u32(end, offset_to_room_data + Len(room_data))
                     \o pack_u32(end, offset_to_room_data + Len(room_data) + Len(name_data))
                     \o pack_u32(end, offset_to_room_data + Len(room_data) + Len(name_data)
                                      + Len(link_data))
         IN  IF \E j \in 1..Len(link_idx) : link_idx[j] < 0
             THEN Raise("ValueError: Cannot find the room matching")
             ELSE RoomsLoop(end, room_list, table, nterm, offset_to_room_data, i + 1,
                            room_offset_data \o offs,
                            room_data \o name_data \o link_data \o asset_data)

\* The zero bytes that align the asset offset data: the loop of line 460, run
\* when fdgh_head holds 16 bytes.
HashAlignment(fdgh_head_len, world_map_len, room_offset_len, room_data_len) ==
    Zeros((8 - ((fdgh_head_len + world_map_len + room_offset_len + room_data_len) % 8)) % 8)

\* Step 7 for the assets from the i-th on: [assets_offset_data, assets_data].
RECURSIVE AssetsLoop(_, _, _, _, _, _, _, _)
AssetsLoop(end, table, hash_type, nterm, offset_to_assets_list, i, assets_offset_data, assets_data) ==
    IF i > Len(table)
    THEN [assets_offset_data |-> assets_offset_data, assets_data |-> assets_data]
    ELSE LET asset == table[i]
             record == (IF hash_type = "fnv1a_64"
                        THEN Zeros(4) \o pack_u64(end, fnv1a_64(encode_latin1(asset)))
                        ELSE <<>>)
                       \o pack_u32(end, offset_to_assets_list + Len(assets_data))
         IN  AssetsLoop(end, table, hash_type, nterm, offset_to_assets_list, i + 1,
                        assets_offset_data \o record,
                        assets_data \o pack_4b_length_prefixed_padded_string(end, asset, nterm))

\* Steps 0 to 8 of xml_to_fdgh.
GenerateFdgh(end, xbin_version, nterm, hash_type, world_map_unknown, world_map_room_names, room_list) ==
    LET xbin_adj == HeaderLen(xbin_version)
        magic == IF end = ">" THEN FDGH_MAGIC_BE ELSE FDGH_MAGIC_LE
        head12 == magic \o pack_u32(end, world_map_unknown) \o pack_u32(end, 20 + xbin_adj)
        wm_idx == [i \in 1..Len(world_map_room_names) |->
                      RoomIndex(room_list, world_map_room_names[i])]
        world_map_data == pack_u32(end, Len(world_map_room_names)) \o PackAll(end, wm_idx)
        table == AssetsListOf(AllAssetNames(room_list))
        offset_to_room_header_data == 20 + Len(world_map_data) + xbin_adj
        head16 == head12 \o pack_u32(end, offset_to_room_header_data)
        offset_to_room_data == offset_to_room_header_data + 4 + Len(room_list) * 12
        rooms == RoomsLoop(end, room_list, table, nterm, offset_to_room_data, 1,
                           pack_u32(end, Len(room_list)), <<>>)
    IN  IF xbin_adj = 0 THEN Raise("ValueError: Unknown XBIN version")
        ELSE IF \E i \in 1..Len(wm_idx) : wm_idx[i] < 0
        THEN Raise("ValueError: Cannot find the room referenced in the world map section")
        ELSE IF ~rooms.ok THEN rooms
        ELSE
        LET room_data == rooms.room_data
                         \o (IF hash_type # "absent"
                             THEN HashAlignment(Len(head16), Len(world_map_data),
                                                Len(rooms.room_offset_data),
                                                Len(rooms.room_data))
                             ELSE <<>>)
            offset_to_assets_header_list == offset_to_room_data + Len(room_data)
            fdgh_head == head16 \o pack_u32(end, offset_to_assets_header_list)
            offset_to_assets_list ==
                offset_to_assets_header_list + 4
                + Len(table) * (IF hash_type = "fnv1a_64" THEN 16 ELSE 4)
            assets == AssetsLoop(end, table, hash_type, nterm, offset_to_assets_list,
                                 1, pack_u32(end, Len(table)), <<>>)
        IN  [ok |-> TRUE, end |-> end,
             data |-> fdgh_head \o world_map_data \o rooms.room_offset_data \o room_data
                      \o assets.assets_offset_data \o assets.assets_data,
             xbin_version |-> xbin_version]

\* None.strip(): an element without text.
NoText(texts) == \E i \in 1..Len(texts) : texts[i] = <<>>

\* xml_to_fdgh(data)
xml_to_fdgh(data) ==
    LET end == IF data.endian = "little" THEN "<" ELSE ">"
        xbin_version == ParseInt(data.xbin_version)
        num_string_null_terminators == ParseInt(data.num_string_null_terminators)
        asset_name_hash_type == data.asset_name_hashes
        world_map_unknown == ParseInt(data.worldmap.value)
    IN  IF xbin_version < 0 \/ num_string_null_terminators < 0
        THEN Raise("ValueError: invalid literal for int()")
        ELSE IF asset_name_hash_type \notin {"absent", "fnv1a_64"}
        THEN Raise("NameError: name 'asset_name_hashes' is not defined")
        ELSE IF world_map_unknown < 0
        THEN Raise("ValueError: invalid literal for int()")
        ELSE IF NoText(data.worldmap.rooms)
                \/ \E i \in 1..Len(data.rooms) :
                       NoText(data.rooms[i].links) \/ NoText(data.rooms[i].assets)
        THEN Raise("AttributeError: 'NoneType' object has no attribute 'strip'")
        ELSE GenerateFdgh(end, xbin_version, num_string_null_terminators,
                          asset_name_hash_type, world_map_unknown,
                          [i \in 1..Len(data.worldmap.rooms) |-> Strip(data.worldmap.rooms[i])],
                          ParseRooms(data.rooms))

---------------------------------------------------------------------------
(* fdgh_to_xml.                                                            *)

\* struct.unpack_from(f'{end}{count}I', data, offset): [ok, val], or
\* struct.error.
unpack_u32s_from(end, data, offset, count) ==
    LET at == UnpackStart(data, offset, 4 * count)
    IN  IF at < 0 THEN Raise("struct.error")
        ELSE [ok |-> TRUE,
              val |-> [j \in 1..count |->
                          U32Value(end, SubSeq(data, at + 4 * j - 3, at + 4 * j))]]

\* The loops of lines 272-274 and 279-281, from item j on: count indices read
\* one by one at offset + 4 + 4 * j; [ok, val], or struct.error.
RECURSIVE ReadIndices(_, _, _, _, _, _)
ReadIndices(end, data, offset, count, j, acc) ==
    IF j >= count THEN [ok |-> TRUE, val |-> acc]
    ELSE LET idx == unpack_u32_from(end, data, offset + 4 + 4 * j)
         IN  IF idx < 0 THEN Raise("struct.error")
             ELSE ReadIndices(end, data, offset, count, j + 1, Append(acc, idx))

\* The body of the room loop for room i (0-based): [ok, val], or struct.error.
ReadRoom(end, data, room_offset_list_start, xbin_adj, i) ==
    LET offs == unpack_u32s_from(end, data, room_offset_list_start + 4 + 12 * i + xbin_adj, 3)
    IN  IF ~offs.ok THEN offs
        ELSE
        LET start_of_string == offs.val[1]
            start_of_links == offs.val[2]
            start_of_assets == offs.val[3]
            room_name == load_4b_length_prefixed_string(
                             end, PyFrom(data, start_of_string + xbin_adj))
            links_count == unpack_u32_from(end, data, start_of_links + xbin_adj)
            links == ReadIndices(end, data, start_of_links + xbin_adj, links_count, 0, <<>>)
            assets_count == unpack_u32_from(end, data, start_of_assets + xbin_adj)
            assets == ReadIndices(end, data, start_of_assets + xbin_adj, assets_count, 0, <<>>)
        IN  IF ~room_name.ok THEN room_name
            ELSE IF links_count < 0 THEN Raise("struct.error")
            ELSE IF ~links.ok THEN links
            ELSE IF assets_count < 0 THEN Raise("struct.error")
            ELSE IF ~assets.ok THEN assets
            ELSE [ok |-> TRUE,
                  val |-> [name |-> room_name.val, links |-> links.val, assets |-> assets.val]]

\* The room loop from room i on: [ok, val], or struct.error.
RECURSIVE ReadRooms(_, _, _, _, _, _, _)
ReadRooms(end, data, room_offset_list_start, xbin_adj, room_count, i, room_list) ==
    IF i >= room_count THEN [ok |-> TRUE, val |-> room_list]
    ELSE LET room == ReadRoom(end, data, room_offset_list_start, xbin_adj, i)
         IN  IF ~room.ok THEN room
             ELSE ReadRooms(end, data, room_offset_list_start, xbin_adj, room_count,
                            i + 1, Append(room_list, room.val))

\* uses_hashes = (data[4:8] == b'\0\0\0\0')
UsesHashes(data) == PySlice(data, 4, 8) = <<0, 0, 0, 0>>

\* The loop of load_string_list from string i on: [ok, val], or struct.error.
RECURSIVE LoadStrings(_, _, _, _, _, _, _)
LoadStrings(end, data, offset_to_data, uses_hashes, number_of_strings, i, strs) ==
    IF i >= number_of_strings THEN [ok |-> TRUE, val |-> strs]
    ELSE LET str_off == unpack_u32_from(end, data,
                            IF uses_hashes THEN 16 + 16 * i ELSE 4 + 4 * i)
             str == load_4b_length_prefixed_string(end, PyFrom(data, str_off - offset_to_data))
         IN  IF str_off < 0 THEN Raise("struct.error")
             ELSE IF ~str.ok THEN str
             ELSE LoadStrings(end, data, offset_to_data, uses_hashes, number_of_strings,
                              i + 1, Append(strs, str.val))

\* load_string_list(end, data, offset_to_data): [ok, strs, hash], or
\* struct.error.
load_string_list(end, data, offset_to_data) ==
    LET number_of_strings == unpack_u32(end, PySlice(data, 0, 4))
        uses_hashes == UsesHashes(data)
        strs == LoadStrings(end, data, offset_to_data, uses_hashes, number_of_strings, 0, <<>>)
    IN  IF number_of_strings < 0 THEN Raise("struct.error")
        ELSE IF ~strs.ok THEN strs
        ELSE [ok |-> TRUE, strs |-> strs.val,
              hash |-> IF uses_hashes THEN "fnv1a_64" ELSE "absent"]

\* The num_string_null_terminators attribute fdgh_to_xml writes.
TerminatorsLegacy(asset_name_hash_type) == <<52>>
TerminatorsAttribute(asset_name_hash_type) ==
    IF asset_name_hash_type = "absent" THEN <<52>> ELSE <<49>>

\* The second half of fdgh_to_xml: the element tree, or the IndexError of an
\* index that is no room and no asset.
GenerateXml(end, xbin_version, world_map_unknown, world_map_indices, room_list, strs, asset_name_hash_type) ==
    IF \/ \E i \in 1..Len(world_map_indices) : world_map_indices[i] >= Len(room_list)
       \/ \E i \in 1..Len(room_list) :
             \/ \E j \in 1..Len(room_list[i].links) :
                   room_list[i].links[j] >= Len(room_list)
             \/ \E j \in 1..Len(room_list[i].assets) :
                   room_list[i].assets[j] >= Len(strs)
    THEN Raise("IndexError: list index out of range")
    ELSE [ok |-> TRUE,
          xml |-> [endian |-> IF end = ">" THEN "big" ELSE "little",
                   xbin_version |-> FormatInt(xbin_version),
                   num_string_null_terminators |-> TerminatorsAttribute(asset_name_hash_type),
                   asset_name_hashes |-> asset_name_hash_type,
                   worldmap |-> [value |-> FormatInt(world_map_unknown),
                                 rooms |-> [i \in 1..Len(world_map_indices) |->
                                              room_list[world_map_indices[i] + 1].name]],
                   rooms |-> [i \in 1..Len(room_list) |->
                       [name |-> room_list[i].name,
                        links |-> [j \in 1..Len(room_list[i].links) |->
                                      room_list[room_list[i].links[j] + 1].name],
                        assets |-> [j \in 1..Len(room_list[i].assets) |->
                                       strs[room_list[i].assets[j] + 1]]]]]]

\* fdgh_to_xml(data, xbin_version)
fdgh_to_xml(data, xbin_version) ==
    IF Len(data) < 16 THEN Raise("ValueError: File is too short to be FDGH")
    ELSE IF HeaderLen(xbin_version) = 0 THEN Raise("ValueError: Unknown XBIN version")
    ELSE
    LET xbin_adj == 0 - HeaderLen(xbin_version)
        magic == SubSeq(data, 1, 4)
        end == IF magic = FDGH_MAGIC_BE THEN ">"
               ELSE IF magic = FDGH_MAGIC_LE THEN "<" ELSE "none"
        header == unpack_u32s_from(end, data, 4, 4)
    IN
    IF end = "none" THEN Raise("ValueError: Incorrect FDGH magic")
    ELSE IF ~header.ok THEN header
    ELSE
    LET world_map_unknown == header.val[1]
        world_map_start == header.val[2]
        room_offset_list_start == header.val[3]
        asset_offset_list_start == header.val[4]
        world_map_count == unpack_u32_from(end, data, world_map_start + xbin_adj)
        world_map_indices == unpack_u32s_from(end, data, world_map_start + 4 + xbin_adj,
                                              world_map_count)
        room_count == unpack_u32_from(end, data, room_offset_list_start + xbin_adj)
        room_list == ReadRooms(end, data, room_offset_list_start, xbin_adj, room_count,
                               0, <<>>)
        assets == load_string_list(end, PyFrom(data, asset_offset_list_start + xbin_adj),
                                   asset_offset_list_start)
    IN
    IF world_map_count < 0 THEN Raise("struct.error")
    ELSE IF ~world_map_indices.ok THEN world_map_indices
    ELSE IF room_count < 0 THEN Raise("struct.error")
    ELSE IF ~room_list.ok THEN room_list
    ELSE IF ~assets.ok THEN assets
    ELSE GenerateXml(end, xbin_version, world_map_unknown, world_map_indices.val,
                     room_list.val, assets.strs, assets.hash)

---------------------------------------------------------------------------
(* The container run: a payload is wrapped by save_xbin, the file may be   *)
(* damaged by one change, and load_xbin reads it.                          *)

MaxPayload == 4
MaxCut == 2

XbinEnds == {">", "<"}
XbinVersions == {2, 3, 4, 5}
PayloadBytes == {0, 7}
Metadatas == {932, 65001}
TamperBytes == {0, 5, 22, 67}

RECURSIVE SeqsUpTo(_, _)
SeqsUpTo(S, n) ==
    IF n = 0 THEN {<<>>}
    ELSE LET shorter == SeqsUpTo(S, n - 1)
         IN  shorter \cup {Append(q, x) : q \in {r \in shorter : Len(r) = n - 1}, x \in S}

InitXbin ==
    /\ pc = "save_xbin"
    /\ xbin_args \in [end : XbinEnds, data : SeqsUpTo(PayloadBytes, MaxPayload),
                       metadata : Metadatas, version : XbinVersions]
    /\ xbin_data = None
    /\ dat_file = None
    /\ loaded = None
    /\ xml_file = None /\ enc = None /\ xml_data = None /\ xml_out = None
    /\ asset_names = <<>> /\ assets_list = <<>>
    /\ ToolsIdle

xbinOther == <<xml_file, enc, xml_data, xml_out, asset_names, assets_list, toolVars>>

\* save_xbin, and the write of its result.
SaveXbin ==
    /\ pc = "save_xbin"
    /\ xbin_data' = save_xbin(xbin_args.end, xbin_args.data,
                              xbin_args.metadata, xbin_args.version)
    /\ IF xbin_data'.ok
       THEN dat_file' = xbin_data'.data /\ pc' = "saved"
       ELSE dat_file' = dat_file /\ pc' = "failed"
    /\ UNCHANGED <<loaded, xbin_args, xbinOther>>

\* One byte of the file is overwritten.
SetByte ==
    /\ pc = "saved"
    /\ \E i \in 1..Len(dat_file), b \in TamperBytes :
          /\ dat_file[i] # b
          /\ dat_file' = [dat_file EXCEPT ![i] = b]
    /\ pc' = "damaged"
    /\ UNCHANGED <<xbin_data, loaded, xbin_args, xbinOther>>

\* The file loses its last bytes.
Truncate ==
    /\ pc = "saved"
    /\ \E k \in 1..MaxCut :
          dat_file' = SubSeq(dat_file, 1, Len(dat_file) - k)
    /\ pc' = "damaged"
    /\ UNCHANGED <<xbin_data, loaded, xbin_args, xbinOther>>

\* A byte is appended to the file.
AppendByte ==
    /\ pc = "saved"
    /\ \E b \in TamperBytes : dat_file' = Append(dat_file, b)
    /\ pc' = "damaged"
    /\ UNCHANGED <<xbin_data, loaded, xbin_args, xbinOther>>

\* load_xbin on the file.
LoadXbin ==
    /\ pc \in {"saved", "damaged"}
    /\ loaded' = load_xbin(dat_file)
    /\ pc' = "loaded"
    /\ UNCHANGED <<xbin_data, dat_file, xbin_args, xbinOther>>

NextXbin == SaveXbin \/ SetByte \/ Truncate \/ AppendByte \/ LoadXbin

SpecXbin == InitXbin /\ [][NextXbin]_vars

---------------------------------------------------------------------------
(* The asset run: xml_to_fdgh reads the asset names of the rooms one by    *)
(* one, then builds the asset table of step 3.                             *)

MaxAssetRefs == 5

\* "z", "A", "-", ".", "9", "a", "A9"
SortNames == {<<122>>, <<65>>, <<45>>, <<46>>, <<57>>, <<97>>, <<65, 57>>}

InitSort ==
    /\ pc = "read_assets"
    /\ asset_names = <<>>
    /\ assets_list = <<>>
    /\ xml_file = None /\ enc = None /\ xbin_data = None /\ dat_file = None
    /\ loaded = None /\ xml_data = None /\ xml_out = None /\ xbin_args = None
    /\ ToolsIdle

sortOther == <<xml_file, enc, xbin_data, dat_file, loaded, xml_data, xml_out, xbin_args, toolVars>>

\* asset_names.append(room_subnode.text.strip())
ReadAsset ==
    /\ pc = "read_assets"
    /\ Len(asset_names) < MaxAssetRefs
    /\ \E name \in SortNames : asset_names' = Append(asset_names, name)
    /\ UNCHANGED <<pc, assets_list, sortOther>>

\* Step 3.
BuildAssetsList ==
    /\ pc = "read_assets"
    /\ assets_list' = AssetsListOf(asset_names)
    /\ pc' = "built"
    /\ UNCHANGED <<asset_names, sortOther>>

NextSort == ReadAsset \/ BuildAssetsList

SpecSort == InitSort /\ [][NextSort]_vars

---------------------------------------------------------------------------
(* The conversions of main.  An XML file is written, main converts it to   *)
(* the .dat file, and main is run again on that file to convert it back.   *)

MaxDocSize == 3
DEFAULT_METADATA == 65001

Endians == {"big", "little"}
\* "2", "4", "5"
VersionNumerals == {<<50>>, <<52>>, <<53>>}
\* "1", "4"
TerminatorNumerals == {<<49>>, <<52>>}
HashTypes == {"absent", "fnv1a_64"}
\* "2"
WorldMapValues == {<<50>>}
\* "R", "cd"
RoomNames == {<<82>>, <<99, 100>>}
\* a name no room has: "x"
LinkTexts == RoomNames \cup {<<120>>}
\* "A", "b"
AssetTexts == {<<65>>, <<98>>}

RECURSIVE SumOver(_, _)
SumOver(rooms, i) ==
    IF i > Len(rooms) THEN 0
    ELSE 1 + Len(rooms[i].links) + Len(rooms[i].assets) + SumOver(rooms, i + 1)

\* The number of elements below the root's two containers.
DocSize(doc) == Len(doc.worldmap.rooms) + SumOver(doc.rooms, 1)

Init ==
    /\ pc = "edit"
    /\ \E e \in Endians, v \in VersionNumerals, t \in TerminatorNumerals,
          h \in HashTypes, w \in WorldMapValues :
          xml_file = [endian |-> e, xbin_version |-> v,
                      num_string_null_terminators |-> t, asset_name_hashes |-> h,
                      worldmap |-> [value |-> w, rooms |-> <<>>],
                      rooms |-> <<>>]
    /\ enc = None /\ xbin_data = None /\ dat_file = None /\ loaded = None
    /\ xml_data = None /\ xml_out = None
    /\ xbin_args = None /\ asset_names = <<>> /\ assets_list = <<>>
    /\ ToolsIdle

mainOther == <<xbin_args, asset_names, assets_list, toolVars>>
mainLocals == <<enc, xbin_data, dat_file, loaded, xml_data, xml_out>>

\* <room name="..."> is added to the rooms element.
AddRoom ==
    /\ pc = "edit" /\ DocSize(xml_file) < MaxDocSize
    /\ \E name \in RoomNames :
          /\ \A i \in 1..Len(xml_file.rooms) : xml_file.rooms[i].name # name
          /\ xml_file' = [xml_file EXCEPT !.rooms =
                              Append(@, [name |-> name, links |-> <<>>, assets |-> <<>>])]
    /\ UNCHANGED <<pc, mainLocals, mainOther>>

\* <link> is added to the last room.
AddLink ==
    /\ pc = "edit" /\ DocSize(xml_file) < MaxDocSize /\ xml_file.rooms # <<>>
    /\ \E text \in LinkTexts :
          xml_file' = [xml_file EXCEPT !.rooms[Len(xml_file.rooms)].links = Append(@, text)]
    /\ UNCHANGED <<pc, mainLocals, mainOther>>

\* <asset> is added to the last room.
AddAsset ==
    /\ pc = "edit" /\ DocSize(xml_file) < MaxDocSize /\ xml_file.rooms # <<>>
    /\ \E text \in AssetTexts :
          xml_file' = [xml_file EXCEPT !.rooms[Len(xml_file.rooms)].assets = Append(@, text)]
    /\ UNCHANGED <<pc, mainLocals, mainOther>>

\* <room> is added to the worldmap element.
AddWorldMapRoom ==
    /\ pc = "edit" /\ DocSize(xml_file) < MaxDocSize
    /\ \E text \in LinkTexts :
          xml_file' = [xml_file EXCEPT !.worldmap.rooms = Append(@, text)]
    /\ UNCHANGED <<pc, mainLocals, mainOther>>

\* b in a, for two byte strings.
BytesIn(b, a) == \E i \in 0..(Len(a) - Len(b)) : SubSeq(a, i + 1, i + Len(b)) = b

\* input_is_xbin of main; the files of the model are shorter than 1024 bytes.
input_is_xbin(first_1024) ==
    /\ Len(first_1024) >= 4 /\ SubSeq(first_1024, 1, 4) = XBIN_MAGIC
    /\ BytesIn(FDGH_MAGIC_BE, first_1024) \/ BytesIn(FDGH_MAGIC_LE, first_1024)
    /\ BytesIn(<<0>>, first_1024)

\* main on the XML file, had it opened its output file for writing before
\* it converts.
MainXmlToFdghOpened ==
    /\ pc = "edit"
    /\ enc' = xml_to_fdgh(xml_file)
    /\ dat_file' = <<>>
    /\ pc' = IF enc'.ok THEN "save_xbin" ELSE "raised"
    /\ UNCHANGED <<xml_file, xbin_data, loaded, xml_data, xml_out, mainOther>>

\* main on the XML file: xml_to_fdgh.
MainXmlToFdgh ==
    /\ pc = "edit"
    /\ enc' = xml_to_fdgh(xml_file)
    /\ pc' = IF enc'.ok THEN "save_xbin" ELSE "raised"
    /\ UNCHANGED <<xml_file, xbin_data, dat_file, loaded, xml_data, xml_out, mainOther>>

\* save_xbin(end, fdgh_data, 0xFDE9, xbin_version)
MainSaveXbin ==
    /\ pc = "save_xbin"
    /\ xbin_data' = save_xbin(enc.end, enc.data, DEFAULT_METADATA, enc.xbin_version)
    /\ pc' = IF xbin_data'.ok THEN "write_bytes" ELSE "raised"
    /\ UNCHANGED <<xml_file, enc, dat_file, loaded, xml_data, xml_out, mainOther>>

\* output_fp.write_bytes(xbin_data)
MainWriteBytes ==
    /\ pc = "write_bytes"
    /\ dat_file' = xbin_data.data
    /\ pc' = "load_xbin"
    /\ UNCHANGED <<xml_file, enc, xbin_data, loaded, xml_data, xml_out, mainOther>>

\* main on the .dat file: load_xbin.
MainLoadXbin ==
    /\ pc \in {"load_xbin", "load_cut_xbin"}
    /\ IF input_is_xbin(dat_file)
       THEN /\ loaded' = load_xbin(dat_file)
            /\ pc' = IF loaded'.ok THEN "fdgh_to_xml" ELSE "raised"
       ELSE /\ loaded' = Raise("ValueError: Unrecognized input file format")
            /\ pc' = "raised"
    /\ UNCHANGED <<xml_file, enc, xbin_data, dat_file, xml_data, xml_out, mainOther>>

\* fdgh_to_xml(fdgh_data, xbin_version)
MainFdghToXml ==
    /\ pc = "fdgh_to_xml"
    /\ xml_data' = fdgh_to_xml(loaded.data, loaded.version)
    /\ pc' = IF xml_data'.ok THEN "write_text" ELSE "raised"
    /\ UNCHANGED <<xml_file, enc, xbin_data, dat_file, loaded, xml_out, mainOther>>

\* output_fp.write_text(xml_data)
MainWriteText ==
    /\ pc = "write_text"
    /\ xml_out' = xml_data.xml
    /\ pc' = "done"
    /\ UNCHANGED <<xml_file, enc, xbin_data, dat_file, loaded, xml_data, mainOther>>

Next ==
    \/ AddRoom \/ AddLink \/ AddAsset \/ AddWorldMapRoom
    \/ MainXmlToFdgh \/ MainSaveXbin \/ MainWriteBytes
    \/ MainLoadXbin \/ MainFdghToXml \/ MainWriteText

Spec == Init /\ [][Next]_vars

\* Between the two runs of main the .dat file loses its last bytes: main is
\* then given a file that is cut short.
CutDatFile ==
    /\ pc = "load_xbin"
    /\ \E k \in 1..MaxCut : dat_file' = SubSeq(dat_file, 1, Len(dat_file) - k)
    /\ pc' = "load_cut_xbin"
    /\ UNCHANGED <<xml_file, enc, xbin_data, loaded, xml_data, xml_out, mainOther>>

NextCut == Next \/ CutDatFile

SpecCut == Init /\ [][NextCut]_vars

---------------------------------------------------------------------------
(* The loop of fnv1a_64, one byte at a time.                               *)

MaxHashLen == 4
\* 0, 'a', 0x80, 0xff
HashBytes == {0, 97, 128, 255}

converterVars == <<xml_file, enc, xbin_data, dat_file, loaded, xml_data, xml_out, xbin_args, asset_names, assets_list>>

ConverterIdle ==
    /\ xml_file = None /\ enc = None /\ xbin_data = None /\ dat_file = None
    /\ loaded = None /\ xml_data = None /\ xml_out = None /\ xbin_args = None
    /\ asset_names = <<>> /\ assets_list = <<>>

\* hash = 0xcbf29ce484222325
InitHash ==
    /\ pc = "fnv1a_64"
    /\ hash_data = <<>>
    /\ hash_value = fnv1a_64(<<>>)
    /\ ConverterIdle /\ CliIdle /\ StrIdle

\* One iteration of "for b in data": hash is then fnv1a_64 of the bytes
\* taken so far.
HashByte ==
    /\ pc = "fnv1a_64" /\ Len(hash_data) < MaxHashLen
    /\ \E b \in HashBytes :
          /\ hash_data' = Append(hash_data, b)
          /\ hash_value' = Fnv(hash_value, <<b>>)
    /\ UNCHANGED <<pc, converterVars, cliVars, strVars>>

\* return hash
HashReturn ==
    /\ pc = "fnv1a_64"
    /\ pc' = "returned"
    /\ UNCHANGED <<hashVars, converterVars, cliVars, strVars>>

NextHash == HashByte \/ HashReturn

SpecHash == InitHash /\ [][NextHash]_vars

---------------------------------------------------------------------------
(* xbin_cli.py: the unpack command on an XBIN file, then the pack command  *)
(* on the file it wrote.                                                   *)

\* n as hexadecimal digits, for n >= 0.
RECURSIVE HexDigits(_)
HexDigits(n) ==
    LET d == n % 16
        c == IF d < 10 THEN 48 + d ELSE 87 + d
    IN  IF n < 16 THEN <<c>> ELSE Append(HexDigits(n \div 16), c)

\* f'{n:#x}'
FormatHex(n) == <<48, 120>> \o HexDigits(n)

\* f'{version},{endianness_word},{metadata:#x}'
ConfigString(endianness, metadata, version) ==
    FormatInt(version) \o <<44>>
    \o (IF endianness = ">" THEN <<98, 105, 103>> ELSE <<108, 105, 116, 116, 108, 101>>)
    \o <<44>> \o FormatHex(metadata)

\* str.count(',')
RECURSIVE CountCommas(_)
CountCommas(t) ==
    IF t = <<>> THEN 0
    ELSE (IF t[1] = 44 THEN 1 ELSE 0) + CountCommas(Tail(t))

\* str.split(','): the parts, one more than the commas.
RECURSIVE SplitCommas(_, _)
SplitCommas(t, part) ==
    IF t = <<>> THEN <<part>>
    ELSE IF t[1] = 44 THEN <<part>> \o SplitCommas(Tail(t), <<>>)
    ELSE SplitCommas(Tail(t), Append(part, t[1]))

\* a in b, for two strings: a is a substring of b.
StrIn(a, b) == \E i \in 0..(Len(b) - Len(a)) : SubSeq(b, i + 1, i + Len(a)) = a

\* The value of a digit, 99 for a character that is none.
DigitValue(c) ==
    IF c \in 48..57 THEN c - 48
    ELSE IF c \in 97..122 THEN c - 87
    ELSE IF c \in 65..90 THEN c - 55
    ELSE 99

RECURSIVE DigitsValue(_, _)
DigitsValue(t, base) ==
    IF t = <<>> THEN 0
    ELSE DigitsValue(SubSeq(t, 1, Len(t) - 1), base) * base + DigitValue(t[Len(t)])

\* int(s, 0) for a string without sign and underscore: the base comes from
\* the prefix, a decimal numeral has no leading zero unless it is zero;
\* -1 is ValueError.
ParseIntAuto(s) ==
    LET t == Strip(s)
        base == IF Len(t) >= 2 /\ t[1] = 48
                THEN (IF t[2] \in {120, 88} THEN 16
                      ELSE IF t[2] \in {111, 79} THEN 8
                      ELSE IF t[2] \in {98, 66} THEN 2 ELSE 10)
                ELSE 10
        digits == IF base = 10 THEN t ELSE SubSeq(t, 3, Len(t))
    IN  IF digits = <<>> \/ \E i \in 1..Len(digits) : DigitValue(digits[i]) >= base
        THEN -1
        ELSE IF base = 10 /\ Len(t) > 1 /\ t[1] = 48 /\ DigitsValue(t, 10) # 0
        THEN -1
        ELSE DigitsValue(digits, base)

\* handle_unpack: [ok, printed, out_data], or what load_xbin raised.
handle_unpack(input_file) ==
    LET r == load_xbin(input_file)
    IN  IF ~r.ok THEN r
        ELSE [ok |-> TRUE,
              printed |-> ConfigString(r.end, r.metadata, r.version),
              out_data |-> r.data]

\* handle_pack: [ok, data], or the ValueError raised.
handle_pack(embedded_data, config) ==
    IF CountCommas(config) # 2
    THEN Raise("ValueError: \"config\" must be a comma-separated triple with three parts")
    ELSE
    LET parts == SplitCommas(config, <<>>)
        version_str == parts[1]
        endianness_word == [i \in 1..Len(parts[2]) |-> Lower(parts[2][i])]
        metadata == ParseIntAuto(parts[3])
        version == ParseInt(version_str)
    IN  IF ~StrIn(version_str, <<50, 52>>)
        THEN Raise("ValueError: XBIN version must be 2 or 4")
        ELSE IF version < 0 THEN Raise("ValueError: invalid literal for int()")
        ELSE IF endianness_word \notin {<<98, 105, 103>>, <<108, 105, 116, 116, 108, 101>>}
        THEN Raise("ValueError: endianness must be \"big\" or \"little\"")
        ELSE IF metadata < 0 THEN Raise("ValueError: XBIN metadata must be an integer")
        ELSE save_xbin(IF endianness_word = <<108, 105, 116, 116, 108, 101>> THEN "<" ELSE ">",
                       embedded_data, metadata, version)

\* The config strings typed by hand: the two examples of the help text,
\* "2,big,0xfde9" and "4,little,0xfde9", then "2,BIG,932", "5,big,0x3a4",
\* "24,big,1", "4,little" and "4,middle,0x1", "4,big,0x".
TypedConfigs ==
    { <<50, 44, 98, 105, 103, 44, 48, 120, 102, 100, 101, 57>>,
      <<52, 44, 108, 105, 116, 116, 108, 101, 44, 48, 120, 102, 100, 101, 57>>,
      <<50, 44, 66, 73, 71, 44, 57, 51, 50>>,
      <<53, 44, 98, 105, 103, 44, 48, 120, 51, 97, 52>>,
      <<50, 52, 44, 98, 105, 103, 44, 49>>,
      <<52, 44, 108, 105, 116, 116, 108, 101>>,
      <<52, 44, 109, 105, 100, 100, 108, 101, 44, 48, 120, 49>>,
      <<52, 44, 98, 105, 103, 44, 48, 120>> }

\* The XBIN files given to unpack: what save_xbin makes, with the last
\* bytes cut off or not.
InitCli ==
    /\ pc = "unpack"
    /\ \E end \in XbinEnds, version \in {2, 4, 5}, metadata \in Metadatas,
          data \in SeqsUpTo(PayloadBytes, MaxPayload), cut \in 0..MaxCut :
          LET xbin == save_xbin(end, data, metadata, version).data
          IN  cli_input = SubSeq(xbin, 1, Len(xbin) - cut)
    /\ cli_printed = None /\ cli_unpacked = None
    /\ cli_config = None /\ cli_packed = None
    /\ ConverterIdle /\ HashIdle /\ StrIdle

cliOther == <<converterVars, hashVars, strVars>>

\* xbin_cli.py unpack input_file
CliUnpack ==
    /\ pc = "unpack"
    /\ LET r == handle_unpack(cli_input)
       IN  IF r.ok
           THEN /\ cli_printed' = r.printed
                /\ cli_unpacked' = r.out_data
                /\ pc' = "pack"
           ELSE /\ pc' = "raised"
                /\ UNCHANGED <<cli_printed, cli_unpacked>>
    /\ UNCHANGED <<cli_input, cli_config, cli_packed, cliOther>>

\* xbin_cli.py pack input_file config, with the string unpack printed or
\* with one typed by hand.
CliPack ==
    /\ pc = "pack"
    /\ \E config \in {cli_printed} \cup TypedConfigs :
          /\ cli_config' = config
          /\ cli_packed' = handle_pack(cli_unpacked, config)
    /\ pc' = IF cli_packed'.ok THEN "packed" ELSE "raised"
    /\ UNCHANGED <<cli_input, cli_printed, cli_unpacked, cliOther>>

NextCli == CliUnpack \/ CliPack

SpecCli == InitCli /\ [][NextCli]_vars

---------------------------------------------------------------------------
(* A string written by pack_4b_length_prefixed_padded_string and read by   *)
(* load_4b_length_prefixed_string.                                         *)

MaxStrLen == 4
\* NUL, 'A', 0xff
StrChars == {0, 65, 255}
TerminatorCounts == {1, 4}

InitStr ==
    /\ pc = "pack_string"
    /\ str_args \in [end : XbinEnds, string : SeqsUpTo(StrChars, MaxStrLen),
                      num_null_terminators : TerminatorCounts]
    /\ str_encoded = None /\ str_loaded = None
    /\ ConverterIdle /\ HashIdle /\ CliIdle

strOther == <<converterVars, hashVars, cliVars>>

\* pack_4b_length_prefixed_padded_string(end, string, num_null_terminators)
PackString ==
    /\ pc = "pack_string"
    /\ str_encoded' = pack_4b_length_prefixed_padded_string(
                          str_args.end, str_args.string, str_args.num_null_terminators)
    /\ pc' = "load_string"
    /\ UNCHANGED <<str_args, str_loaded, strOther>>

\* load_4b_length_prefixed_string(end, data) on what was packed.
LoadString ==
    /\ pc = "load_string"
    /\ str_loaded' = load_4b_length_prefixed_string(str_args.end, str_encoded)
    /\ pc' = "string_loaded"
    /\ UNCHANGED <<str_args, str_encoded, strOther>>

NextStr == PackString \/ LoadString

SpecStr == InitStr /\ [][NextStr]_vars

---------------------------------------------------------------------------
(* Claims about the container, checked under SpecXbin.                     *)

\* The fields of an XBIN header, read from a buffer of at least 16 (20) bytes.
HeaderValid(d) ==
    Len(d) >= 16 /\ SubSeq(d, 1, 6) \in {XBIN_MAGIC_BE, XBIN_MAGIC_LE} /\ d[8] = 0
EndOf(d) == IF SubSeq(d, 1, 6) = XBIN_MAGIC_BE THEN ">" ELSE "<"
TotalSizeOf(d) == U32Value(EndOf(d), SubSeq(d, 9, 12))
TrailerOffsetOf(d) == U32Value(EndOf(d), SubSeq(d, 17, 20))
MarkerOf(d) == (IF EndOf(d) = ">" THEN <<67, 79, 76, 82>> ELSE <<82, 76, 79, 67>>)
               \o <<0, 0, 0, 0, 0, 0, 0, 0>>
MarkerAt(d, off) == Len(d) >= off + 12 /\ SubSeq(d, off + 1, off + 12) = MarkerOf(d)

\* C2: load_xbin applied to the buffer save_xbin(e, p, m, v) returned, for v in
\* {2, 4, 5}, succeeds and returns exactly (e, p, m, v): the payload comes back
\* without the bytes that aligned it.
C2_ContainerRoundTrip ==
    (pc = "loaded" /\ dat_file = xbin_data.data)
        => loaded = [ok |-> TRUE, end |-> xbin_args.end, data |-> xbin_args.data,
                     metadata |-> xbin_args.metadata, version |-> xbin_args.version]

\* A payload whose length is no multiple of 4 went through save_xbin and load_xbin.
C2_Witness ==
    /\ pc = "loaded" /\ dat_file = xbin_data.data /\ loaded.ok
    /\ Len(xbin_args.data) % 4 = 3 /\ xbin_args.version = 5

\* C5 as stated: in a version 4/5 buffer of save_xbin the total-size field and
\* the trailer-offset field hold the same value, the length of header plus
\* payload after padding to a multiple of 4, and the marker starts there.
C5_SizeFieldsEqual ==
    (xbin_data.ok /\ xbin_args.version \in {4, 5})
        => LET d == xbin_data.data
               padded == 20 + ((Len(xbin_args.data) + 3) \div 4) * 4
           IN  /\ TotalSizeOf(d) = padded
               /\ TrailerOffsetOf(d) = padded
               /\ MarkerAt(d, padded) /\ Len(d) = padded + 12

\* C5 amended: the total-size field holds the header length plus the unpadded
\* payload length; the trailer-offset field holds that value rounded up to a
\* multiple of 4, which is where the 12-byte marker starts and the buffer's
\* last 12 bytes; only zero bytes lie between the payload and the marker.
C5_SizeFields ==
    (xbin_data.ok /\ xbin_args.version \in {4, 5})
        => LET d == xbin_data.data
               size == 20 + Len(xbin_args.data)
               padded == 20 + ((Len(xbin_args.data) + 3) \div 4) * 4
           IN  /\ TotalSizeOf(d) = size
               /\ TrailerOffsetOf(d) = padded
               /\ MarkerAt(d, padded) /\ Len(d) = padded + 12
               /\ SubSeq(d, 21, size) = xbin_args.data
               /\ \A i \in (size + 1)..padded : d[i] = 0

\* save_xbin wrapped a payload of 1 byte in a version 4 container.
C5_Witness ==
    xbin_data.ok /\ xbin_args.version = 4 /\ Len(xbin_args.data) = 1

\* C6: load_xbin on a buffer with a valid magic, a zero reserved byte and
\* version 4 or 5 succeeds only if the trailer-offset field equals the
\* total-size field rounded up to a multiple of 4 and the 12 bytes at the
\* trailer offset are the marker of the buffer's endianness; otherwise it
\* raises and returns no payload.  A version 2 buffer needs no trailer.
C6_UnwrapValidation ==
    (pc = "loaded" /\ HeaderValid(dat_file))
        => /\ (dat_file[7] \in {4, 5} /\ loaded.ok)
                => /\ Len(dat_file) >= 20
                   /\ TrailerOffsetOf(dat_file)
                          = ((TotalSizeOf(dat_file) + 3) \div 4) * 4
                   /\ MarkerAt(dat_file, TrailerOffsetOf(dat_file))
           /\ (dat_file[7] = 2) => loaded.ok
           /\ ~loaded.ok => DOMAIN loaded = {"ok", "error"}

\* load_xbin refused a version 4/5 buffer whose fields agree but whose marker
\* was overwritten.
C6_Witness ==
    /\ pc = "loaded" /\ HeaderValid(dat_file) /\ dat_file[7] \in {4, 5}
    /\ Len(dat_file) >= 20
    /\ TrailerOffsetOf(dat_file) = ((TotalSizeOf(dat_file) + 3) \div 4) * 4
    /\ ~MarkerAt(dat_file, TrailerOffsetOf(dat_file))
    /\ ~loaded.ok

\* C7: load_xbin on a buffer whose total-size field is larger than the buffer
\* raises; it never returns a payload sliced from fewer bytes than the field
\* declares.
C7_TruncatedRejected ==
    (pc = "loaded" /\ HeaderValid(dat_file)
        /\ TotalSizeOf(dat_file) > Len(dat_file))
        => ~loaded.ok

---------------------------------------------------------------------------
(* Claims about the collation order and the asset table, under SpecSort.   *)

\* The same names in another order: the asset names of a document whose rooms
\* (or whose assets inside rooms) are reordered.
Reorderings(names) ==
    {[i \in 1..Len(names) |-> names[p[i]]] : p \in Permutations(1..Len(names))}

\* C4: two documents with the same asset names, in whatever order their rooms
\* and assets come, get the same asset table, also when two names differ
\* only in letter case.
C4_TableIndependentOfOrder ==
    pc = "built" => \A other \in Reorderings(asset_names) :
                        AssetsListOf(other) = assets_list

\* The order the claim describes, on lower-cased characters: a character of
\* the punctuation table before any other, two of the table by position
\* ('.' before '-', otherwise as in ASCII), two others by code point.
IsPunct(c) == c \in (33..47) \cup (58..64) \cup (91..96) \cup (123..126)
PunctPos(c) == IF c = 46 THEN 45 ELSE IF c = 45 THEN 46 ELSE c
CharBefore(x, y) ==
    LET c == IF x \in 65..90 THEN x + 32 ELSE x
        d == IF y \in 65..90 THEN y + 32 ELSE y
    IN  IF IsPunct(c) /\ IsPunct(d) THEN PunctPos(c) < PunctPos(d)
        ELSE IF IsPunct(c) \/ IsPunct(d) THEN IsPunct(c)
        ELSE c < d
\* s sorts strictly before t: at the first position where they differ in the
\* order above, or s is a proper prefix of t.
StrBefore(s, t) ==
    \E k \in 1..(Len(t)) :
        /\ \A i \in 1..(k - 1) : i <= Len(s) /\ ~CharBefore(s[i], t[i])
                                              /\ ~CharBefore(t[i], s[i])
        /\ IF k <= Len(s) THEN CharBefore(s[k], t[k]) ELSE k = Len(s) + 1

\* C10: the table sorted by fdgh_string_sorting_key holds the names read, each
\* once, and no name stands after one it sorts strictly before in the
\* case-insensitive, punctuation-first, lexicographic order; and "z", "A",
\* "-", ".", "9" comes out as ".", "-", "9", "A", "z".
C10_CollationOrder ==
    pc = "built" =>
        /\ {assets_list[i] : i \in 1..Len(assets_list)}
               = {asset_names[i] : i \in 1..Len(asset_names)}
        /\ \A i, j \in 1..Len(assets_list) :
               i < j => /\ assets_list[i] # assets_list[j]
                        /\ ~StrBefore(assets_list[j], assets_list[i])
        /\ asset_names = << <<122>>, <<65>>, <<45>>, <<46>>, <<57>> >>
               => assets_list = << <<46>>, <<45>>, <<57>>, <<65>>, <<122>> >>

\* The table was built from "z", "A", "-", ".", "9".
C10_Witness ==
    /\ pc = "built"
    /\ asset_names = << <<122>>, <<65>>, <<45>>, <<46>>, <<57>> >>
    /\ Len(assets_list) = 5

---------------------------------------------------------------------------
(* Claims about the two conversions, checked under Spec.                   *)

NamesOf(rooms) == {rooms[i].name : i \in 1..Len(rooms)}

\* Some link, or some world-map room reference, names no room of the
\* document.
Unresolved(doc) ==
    \/ \E i \in 1..Len(doc.worldmap.rooms) :
           doc.worldmap.rooms[i] \notin NamesOf(doc.rooms)
    \/ \E i \in 1..Len(doc.rooms) : \E j \in 1..Len(doc.rooms[i].links) :
           doc.rooms[i].links[j] \notin NamesOf(doc.rooms)

\* A valid document: unique room names, every reference resolving, hashes
\* only together with one terminator.
ValidDocument(doc) ==
    /\ \A i, j \in 1..Len(doc.rooms) : doc.rooms[i].name = doc.rooms[j].name => i = j
    /\ ~Unresolved(doc)
    /\ doc.asset_name_hashes = "fnv1a_64" => doc.num_string_null_terminators = <<49>>

\* C1: a valid document is converted to the .dat file and back without an
\* error, and the document written back equals it in every field.
C1_ModelRoundTrip ==
    ValidDocument(xml_file)
        => /\ pc # "raised"
           /\ pc = "done" => xml_out = xml_file

\* C3: xml_to_fdgh raises the ValueError about the room, and returns no
\* payload, exactly when some link or world-map reference names no room.
C3_UnknownReference ==
    pc # "edit"
        => /\ Unresolved(xml_file) <=> ~enc.ok
           /\ ~enc.ok => /\ DOMAIN enc = {"ok", "error"}
                          /\ xbin_data = None /\ dat_file = None

\* xml_to_fdgh raised on a document with two rooms where a link of one names
\* no room.
C3_Witness ==
    /\ pc = "raised" /\ ~enc.ok
    /\ Len(xml_file.rooms) = 2
    /\ xml_file.worldmap.rooms = <<>>
    /\ \E i \in 1..2 : \E j \in 1..Len(xml_file.rooms[i].links) :
           xml_file.rooms[i].links[j] \notin NamesOf(xml_file.rooms)

\* The offset of the asset-offset table as the FDGH header stores it.
AssetsListOffsetOf(e) ==
    U32Value(e.end, SubSeq(e.data, 17, 20))

RECURSIVE RoomBytes(_, _, _)
RoomBytes(rooms, nterm, i) ==
    IF i > Len(rooms) THEN 0
    ELSE ((4 + Len(rooms[i].name) + nterm + 3) \div 4) * 4
         + 4 + 4 * Len(rooms[i].links) + 4 + 4 * Len(rooms[i].assets)
         + RoomBytes(rooms, nterm, i + 1)

\* Where the room data of a document ends, as a container-relative offset:
\* container header, the 20 bytes of the FDGH header, the world map, the room
\* offset list and the rooms.
RoomDataEnd(doc) ==
    (IF doc.xbin_version = <<50>> THEN 16 ELSE 20) + 20
    + 4 + 4 * Len(doc.worldmap.rooms)
    + 4 + 12 * Len(doc.rooms)
    + RoomBytes(doc.rooms, IF doc.num_string_null_terminators = <<49>> THEN 1 ELSE 4, 1)

\* C8: with hashes the stored offset of the asset-offset table is a multiple
\* of 8 for every version, and only zero bytes stand between the room data
\* and the table; without hashes the table follows the room data directly.
C8_HashAlignment ==
    (pc # "edit" /\ enc.ok)
        => LET off == AssetsListOffsetOf(enc)
               adj == IF xml_file.xbin_version = <<50>> THEN 16 ELSE 20
           IN  IF xml_file.asset_name_hashes = "fnv1a_64"
               THEN /\ off % 8 = 0
                    /\ off >= RoomDataEnd(xml_file)
                    /\ \A k \in (RoomDataEnd(xml_file) + 1)..off : enc.data[k - adj] = 0
               ELSE off = RoomDataEnd(xml_file)

\* What the encoder keeps of C8: with hashes, the asset-offset table starts 4
\* bytes past a multiple of 8 of the payload, which is a multiple of 8 of the
\* container for versions 4 and 5 and never for version 2; fewer than 8
\* bytes are inserted, all zero, and none without hashes.
C8_PayloadAlignment ==
    (pc # "edit" /\ enc.ok)
        => LET off == AssetsListOffsetOf(enc)
               adj == IF xml_file.xbin_version = <<50>> THEN 16 ELSE 20
           IN  IF xml_file.asset_name_hashes = "fnv1a_64"
               THEN /\ (off - adj - 4) % 8 = 0
                    /\ off >= RoomDataEnd(xml_file)
                    /\ off - RoomDataEnd(xml_file) < 8
                    /\ \A k \in (RoomDataEnd(xml_file) + 1)..off : enc.data[k - adj] = 0
               ELSE off = RoomDataEnd(xml_file)

\* C9: after the two conversions, the hash mode fdgh_to_xml detected through
\* load_string_list is the one the document was encoded with.
C9_HashDetection ==
    (pc \in {"write_text", "done"})
        => xml_data.xml.asset_name_hashes = xml_file.asset_name_hashes

---------------------------------------------------------------------------
(* Claims about the hash, checked under SpecHash.                          *)

\* The same hash on four 16-bit words, least significant first.  a ^ b bit
\* by bit:
BitXor(a, b) ==
    LET bit(k) == ((a \div (2 ^ k)) + (b \div (2 ^ k))) % 2
    IN  bit(0) + 2 * bit(1) + 4 * bit(2) + 8 * bit(3)
        + 16 * bit(4) + 32 * bit(5) + 64 * bit(6) + 128 * bit(7)

\* (w * 0x100000001b3) mod 2^64 as w * 0x1b3 + ((w * 2^8) * 2^32).
WordsTimesPrime(w) ==
    LET a1 == w[1] * 435
        a2 == w[2] * 435 + (a1 \div 65536)
        a3 == w[3] * 435 + (a2 \div 65536)
        a4 == w[4] * 435 + (a3 \div 65536)
        s1 == (w[1] * 256) % 65536
        s2 == (w[2] * 256 + (w[1] \div 256)) % 65536
        r3 == (a3 % 65536) + s1
        r4 == (a4 % 65536) + s2 + (r3 \div 65536)
    IN  <<a1 % 65536, a2 % 65536, r3 % 65536, r4 % 65536>>

\* h = 0xcbf29ce484222325, then h = ((h xor b) * 0x100000001b3) mod 2^64 for
\* each byte.
RECURSIVE WordsHash(_, _)
WordsHash(w, data) ==
    IF data = <<>> THEN w
    ELSE WordsHash(
             WordsTimesPrime([w EXCEPT ![1] = (w[1] \div 256) * 256
                                              + BitXor(w[1] % 256, data[1])]),
             Tail(data))

WordsToBytes(w) ==
    [i \in 1..8 |-> IF i % 2 = 1 THEN w[(i + 1) \div 2] % 256
                                  ELSE w[i \div 2] \div 256]

\* C11: fnv1a_64 is a value of 64 bits, the one the recurrence
\* h = ((h xor b) * 0x100000001b3) mod 2^64 from 0xcbf29ce484222325 gives;
\* of no byte it is 0xcbf29ce484222325, of the byte 'a' 0xaf63dc4c8601ec8c.
C11_Fnv1a64 ==
    pc \in {"fnv1a_64", "returned"}
        => /\ Len(hash_value) = 8
           /\ \A i \in 1..8 : hash_value[i] \in 0..255
           /\ hash_value = WordsToBytes(WordsHash(<<8997, 33826, 40164, 52210>>, hash_data))
           /\ hash_data = <<>>
                  => hash_value = <<37, 35, 34, 132, 228, 156, 242, 203>>
           /\ hash_data = <<97>>
                  => hash_value = <<140, 236, 1, 134, 76, 220, 99, 175>>

\* fnv1a_64 returned the hash of 'a', and of as many bytes as the run takes.
C11_Witness ==
    /\ pc = "returned"
    /\ hash_data = <<97>> \/ (Len(hash_data) >= 4 /\ hash_data[4] = 255)

---------------------------------------------------------------------------
(* Claims about xbin_cli.py, checked under SpecCli.                        *)

\* C12: the pack command, given the configuration string unpack printed for
\* an XBIN file and the payload it wrote, raises nothing and writes a
\* container of the same version, endianness and metadata.
C12_PackAcceptsPrinted ==
    (pc \in {"packed", "raised"} /\ cli_packed # None /\ cli_config = cli_printed)
        => /\ cli_packed.ok
           /\ LET given == load_xbin(cli_input)
                  made == load_xbin(cli_packed.data)
              IN  /\ made.ok
                  /\ made.version = given.version
                  /\ made.end = given.end
                  /\ made.metadata = given.metadata

\* What the pack command keeps of C12: the same, for the versions 2 and 4.
C12_PackAcceptsPrinted24 ==
    (pc \in {"packed", "raised"} /\ cli_packed # None /\ cli_config = cli_printed
        /\ cli_input[7] \in {2, 4})
        => /\ cli_packed.ok
           /\ LET given == load_xbin(cli_input)
                  made == load_xbin(cli_packed.data)
              IN  /\ made.ok
                  /\ made.version = given.version
                  /\ made.end = given.end
                  /\ made.metadata = given.metadata
                  /\ made.data = given.data

---------------------------------------------------------------------------
(* Claims about main on files that may be cut short, checked under SpecCut. *)

\* A step of main has raised.
Raised(r) == r # None /\ ~r.ok

\* C13: main writes its output file only after both steps of the conversion
\* have returned; once a step has raised, the output file of that run is
\* not written, then or later.
C13_AtomicFailure ==
    /\ dat_file # None => (enc # None /\ enc.ok /\ xbin_data # None /\ xbin_data.ok)
    /\ xml_out # None => (loaded # None /\ loaded.ok /\ xml_data # None /\ xml_data.ok)
    /\ (Raised(enc) \/ Raised(xbin_data)) => (pc = "raised" /\ dat_file = None)
    /\ (Raised(loaded) \/ Raised(xml_data)) => (pc = "raised" /\ xml_out = None)

\* The second run of main raised on a file cut short, in load_xbin or in
\* fdgh_to_xml.
C13_Witness ==
    /\ pc = "raised" /\ dat_file # None /\ xml_out = None
    /\ Raised(xml_data)

\* The first run of main raised in xml_to_fdgh.
C13_WitnessEncode ==
    pc = "raised" /\ Raised(enc) /\ dat_file = None

---------------------------------------------------------------------------
(* Claims about the layout xml_to_fdgh writes, checked under Spec.         *)

\* The u32 at position k (from 0) of the payload xml_to_fdgh returned.
PayloadU32(k) == U32Value(enc.end, SubSeq(enc.data, k + 1, k + 4))

\* The length-prefixed string that begins at position k is text.
StringAt(k, text) ==
    /\ PayloadU32(k) = Len(text)
    /\ SubSeq(enc.data, k + 5, k + 4 + Len(text)) = text

\* The u32 at position k is count, and the count indices after it are
\* below bound.
IndicesAt(k, count, bound) ==
    /\ PayloadU32(k) = count
    /\ \A j \in 1..count : PayloadU32(k + 4 * j) < bound

\* From asset record i on: each record's string offset is the position
\* where an asset name of the document begins, the strings follow one
\* another from cursor on, and the last one ends the payload.
RECURSIVE AssetRecordsAt(_, _, _, _, _, _)
AssetRecordsAt(i, count, records, size, cursor, adj) ==
    IF i > count THEN cursor = Len(enc.data)
    ELSE LET len == PayloadU32(cursor)
             nterm == IF xml_file.num_string_null_terminators = <<49>> THEN 1 ELSE 4
         IN  /\ PayloadU32(records + size * i - 4) = cursor + adj
             /\ \E r \in 1..Len(xml_file.rooms) : \E a \in 1..Len(xml_file.rooms[r].assets) :
                    StringAt(cursor, xml_file.rooms[r].assets[a])
             /\ AssetRecordsAt(i + 1, count, records, size,
                               cursor + ((4 + len + nterm + 3) \div 4) * 4, adj)

---------------------------------------------------------------------------
(* Claims about the strings, checked under SpecStr.                        *)

\* C15: the packed string is the 4-byte length of s, the bytes of s, then
\* only zero bytes; its length is the smallest multiple of 4 that is at
\* least 4 + len(s) + t, so that 4 to 7 zero bytes follow s for t = 4 and
\* 1 to 4 for t = 1; load_4b_length_prefixed_string returns s from it.
C15_StringLayout ==
    LET s == str_args.string
        t == str_args.num_null_terminators
        n == Len(str_encoded)
        padding == n - 4 - Len(s)
        length == IF str_args.end = ">"
                  THEN str_encoded[1] * 16777216 + str_encoded[2] * 65536
                       + str_encoded[3] * 256 + str_encoded[4]
                  ELSE str_encoded[4] * 16777216 + str_encoded[3] * 65536
                       + str_encoded[2] * 256 + str_encoded[1]
    IN  /\ pc \in {"load_string", "string_loaded"}
            => /\ n >= 4 /\ length = Len(s)
               /\ SubSeq(str_encoded, 5, 4 + Len(s)) = s
               /\ \A i \in (5 + Len(s))..n : str_encoded[i] = 0
               /\ n % 4 = 0 /\ n >= 4 + Len(s) + t /\ n - 4 < 4 + Len(s) + t
               /\ t = 4 => padding \in 4..7
               /\ t = 1 => padding \in 1..4
        /\ pc = "string_loaded" => (str_loaded.ok /\ str_loaded.val = s)

\* A string of 4 characters, with a NUL among them, was packed with one
\* terminator and read back.
C15_Witness ==
    /\ pc = "string_loaded"
    /\ Len(str_args.string) = 4 /\ str_args.num_null_terminators = 1
    /\ \E i \in 1..4 : str_args.string[i] = 0
    /\ Len(str_encoded) = 12

---------------------------------------------------------------------------
(* Claims about the attributes fdgh_to_xml declares, under SpecCut.        *)

\* The 4 bytes after the count of the asset string list of the payload
\* load_xbin returned are there and are all zero.
HashesDetected ==
    LET adj == IF loaded.version = 2 THEN 16 ELSE 20
        list == U32Value(loaded.end, SubSeq(loaded.data, 17, 20)) - adj
    IN  /\ Len(loaded.data) >= list + 8
        /\ SubSeq(loaded.data, list + 5, list + 8) = <<0, 0, 0, 0>>

\* C16: the document fdgh_to_xml returns declares 1 terminator and
\* asset_name_hashes = fnv1a_64 exactly when hashes were detected, and 4
\* terminators and no asset_name_hashes exactly when none were, whatever
\* the number of terminators the strings of the payload were written with.
C16_PaddingFromHashMode ==
    (xml_data # None /\ xml_data.ok)
        => /\ xml_data.xml.num_string_null_terminators \in {<<49>>, <<52>>}
           /\ xml_data.xml.num_string_null_terminators = <<49>> <=> HashesDetected
           /\ xml_data.xml.asset_name_hashes = "fnv1a_64" <=> HashesDetected
           /\ xml_data.xml.asset_name_hashes \in {"fnv1a_64", "absent"}

\* fdgh_to_xml declared 1 terminator for a payload whose strings were
\* written with 4, a hashed asset among them.
C16_Witness ==
    /\ pc = "done"
    /\ xml_file.num_string_null_terminators = <<52>>
    /\ xml_file.asset_name_hashes = "fnv1a_64"
    /\ \E i \in 1..Len(xml_file.rooms) : xml_file.rooms[i].assets # <<>>
    /\ xml_out.num_string_null_terminators = <<49>>

\* fdgh_to_xml declared 4 terminators for a payload whose strings were
\* written with 1.
C16_WitnessLegacy ==
    /\ pc = "done"
    /\ xml_file.num_string_null_terminators = <<49>>
    /\ xml_file.rooms # <<>>
    /\ xml_out.num_string_null_terminators = <<52>>

====
